---- MODULE Spec2Model ----
(***************************************************************************)
(* ViewManager (Source/ViewManager.cpp): window creation, the cursor and   *)
(* scroll callbacks, the keyboard poller and the per-frame scene view.     *)
(*                                                                         *)
(* Numbers are fixed point, every input lies on a grid on which the float  *)
(* arithmetic of the source is exact:                                      *)
(*   speed multipliers   hundredths        (100 is 1.0f)                   *)
(*   cursor positions    pixels                                            *)
(*   yaw/pitch offsets   tenths of a pixel (sensitivity 2.5f is 25)        *)
(*   time                clock ticks                                       *)
(*   camera speed        hundredths of a unit (ticks * 5 * multiplier)     *)
(* The Camera and the ShaderManager are other classes: of the camera the   *)
(* model keeps the pointer and the calls made on it, of the shader manager *)
(* the value of the "projection" uniform.                                  *)
(***************************************************************************)
EXTENDS Integers

\* ---------------------------------------------------------------- bounds
MaxTime == 1
MaxCursor == 1
MaxScroll == 90

\* ------------------------------------------------------------- constants
WINDOW_WIDTH == 1000
WINDOW_HEIGHT == 800
Sensitivity == 25
BaseSpeed == 5
MultiplierStep == 10
MinMultiplier == 10
MaxMultiplier == 1000
DefaultMultiplier == 100

NULL == "NULL"
Window == "window"
ShaderManager == "shaderManager"
Camera == "camera"

Keys == {"W", "S", "A", "D", "Q", "E", "ESCAPE", "O", "P"}
MovementKeys == {"W", "S", "A", "D", "Q", "E"}
\* the key states a frame can poll: no key, one key, or two keys held at once
KeySets == {{}} \cup {{a, b} : a, b \in Keys}
\* cursor positions reported: the left and right window edges, and rows from
\* the top edge downwards (the centre row, the bottom edge, ...)
CursorXs == {0, WINDOW_WIDTH}
CursorYs == {k * (WINDOW_HEIGHT \div 2) : k \in 0..MaxCursor}
\* wheel deltas reported: none, and a large one in either direction
ScrollDeltas == {0 - MaxScroll, 0, MaxScroll}

VARIABLES
    alive,                  \* a ViewManager object exists
    m_pShaderManager,
    m_pWindow,
    g_pCamera,
    gLastX,
    gLastY,
    gFirstMouse,
    gCameraSpeedMultiplier, \* the namespace-scope variable (line 44)
    mouseMultiplier,        \* static local of Mouse_Position_Callback (line 164)
    scrollMultiplier,       \* static local of Mouse_Scroll_Callback (line 184)
    gDeltaTime,
    gLastFrame,
    bOrthographicProjection,
    glfw,                   \* the windowing library: window, callbacks, context
    blendEnabled,           \* GL_BLEND of the graphics context
    clock,                  \* glfwGetTime()
    projection,             \* the "projection" uniform held by the shader manager
    crashed,                \* the process died on a null camera dereference
    last                    \* the latest call and what it passed on

vars == <<alive, m_pShaderManager, m_pWindow, g_pCamera, gLastX, gLastY,
          gFirstMouse, gCameraSpeedMultiplier, mouseMultiplier,
          scrollMultiplier, gDeltaTime, gLastFrame, bOrthographicProjection,
          glfw, blendEnabled, clock, projection, crashed, last>>

\* ----------------------------------------------------------------- Init
\* Namespace-scope initialisers (lines 36-52) followed by the constructor
\* (lines 60-72); the windowing library is initialised and has no window.
Init ==
    /\ alive = TRUE
    /\ m_pShaderManager = ShaderManager
    /\ m_pWindow = NULL
    /\ g_pCamera = Camera
    /\ gLastX = WINDOW_WIDTH \div 2
    /\ gLastY = WINDOW_HEIGHT \div 2
    /\ gFirstMouse = TRUE
    /\ gCameraSpeedMultiplier = DefaultMultiplier
    /\ mouseMultiplier = DefaultMultiplier
    /\ scrollMultiplier = DefaultMultiplier
    /\ gDeltaTime = 0
    /\ gLastFrame = 0
    /\ bOrthographicProjection = FALSE
    /\ glfw = [window |-> NULL, terminated |-> FALSE, cursorPosCallback |-> FALSE,
               scrollCallback |-> FALSE, contextCurrent |-> FALSE,
               shouldClose |-> FALSE]
    /\ blendEnabled = FALSE
    /\ clock \in 0..MaxTime
    /\ projection = "unset"
    /\ crashed = FALSE
    /\ last = [op |-> "construct"]

\* ---------------------------------------------------------- destructor
Destructor ==
    /\ alive
    /\ ~crashed
    /\ alive' = FALSE
    /\ m_pShaderManager' = NULL
    /\ m_pWindow' = NULL
    /\ g_pCamera' = NULL
    /\ last' = [op |-> "destruct"]
    /\ UNCHANGED <<gLastX, gLastY, gFirstMouse, gCameraSpeedMultiplier,
                   mouseMultiplier, scrollMultiplier, gDeltaTime, gLastFrame,
                   bOrthographicProjection, glfw, blendEnabled, clock,
                   projection, crashed>>

\* ------------------------------------------------- CreateDisplayWindow
\* Variant: the handle member is assigned before the failure test.
CreateDisplayWindowStoresOnFailure(created) ==
    /\ alive
    /\ ~crashed
    /\ m_pWindow = NULL
    /\ created => ~glfw.terminated
    /\ IF ~created
         THEN /\ glfw' = [window |-> NULL, terminated |-> TRUE,
                          cursorPosCallback |-> FALSE, scrollCallback |-> FALSE,
                          contextCurrent |-> FALSE, shouldClose |-> FALSE]
              /\ blendEnabled' = FALSE
              /\ m_pWindow' = Window
              /\ last' = [op |-> "create", created |-> FALSE, result |-> NULL]
         ELSE /\ glfw' = [window |-> Window, terminated |-> FALSE,
                          cursorPosCallback |-> TRUE, scrollCallback |-> TRUE,
                          contextCurrent |-> TRUE, shouldClose |-> FALSE]
              /\ blendEnabled' = TRUE
              /\ m_pWindow' = Window
              /\ last' = [op |-> "create", created |-> TRUE, result |-> Window]
    /\ UNCHANGED <<alive, m_pShaderManager, g_pCamera, gLastX, gLastY,
                   gFirstMouse, gCameraSpeedMultiplier, mouseMultiplier,
                   scrollMultiplier, gDeltaTime, gLastFrame,
                   bOrthographicProjection, clock, projection, crashed>>

\* created: the outcome of glfwCreateWindow.  The host asks for its window
\* while it holds none; once the library is terminated no window can be
\* created any more.
CreateDisplayWindow(created) ==
    /\ alive
    /\ ~crashed
    /\ m_pWindow = NULL
    /\ created => ~glfw.terminated
    /\ IF ~created
         THEN \* lines 106-111: log, glfwTerminate(), return NULL
              /\ glfw' = [window |-> NULL, terminated |-> TRUE,
                          cursorPosCallback |-> FALSE, scrollCallback |-> FALSE,
                          contextCurrent |-> FALSE, shouldClose |-> FALSE]
              /\ blendEnabled' = FALSE
              /\ m_pWindow' = m_pWindow
              /\ last' = [op |-> "create", created |-> FALSE, result |-> NULL]
         ELSE \* lines 112-129
              /\ glfw' = [window |-> Window, terminated |-> FALSE,
                          cursorPosCallback |-> TRUE, scrollCallback |-> TRUE,
                          contextCurrent |-> TRUE, shouldClose |-> FALSE]
              /\ blendEnabled' = TRUE
              /\ m_pWindow' = Window
              /\ last' = [op |-> "create", created |-> TRUE, result |-> Window]
    /\ UNCHANGED <<alive, m_pShaderManager, g_pCamera, gLastX, gLastY,
                   gFirstMouse, gCameraSpeedMultiplier, mouseMultiplier,
                   scrollMultiplier, gDeltaTime, gLastFrame,
                   bOrthographicProjection, clock, projection, crashed>>

\* ------------------------------------------------ speed multiplier clamp
\* Variant: the upper clamp is missing.
ClampLowerOnly(m) ==
    IF m < MinMultiplier THEN MinMultiplier ELSE m

\* lines 167-170 and 187-190
Clamp(m) ==
    IF m < MinMultiplier THEN MinMultiplier
    ELSE IF m > MaxMultiplier THEN MaxMultiplier
    ELSE m

\* --------------------------------------------- Mouse_Position_Callback
\* Variant: the first event does not seed the last position.
SeedNever(first, pos, lastPos) == lastPos

\* lines 142-147: the position the offsets are taken from
Seed(first, pos, lastPos) == IF first THEN pos ELSE lastPos

\* lines 150 and 157
XOffset(x, lastX) == (x - lastX) * Sensitivity

\* Variant: the vertical axis is not reversed.
YOffsetNotReversed(y, lastY) == (y - lastY) * Sensitivity

\* lines 151 and 158
YOffset(y, lastY) == (lastY - y) * Sensitivity

Mouse_Position_Callback(xMousePos, yMousePos) ==
    /\ ~crashed
    /\ glfw.window # NULL
    /\ glfw.cursorPosCallback
    /\ LET fromX == Seed(gFirstMouse, xMousePos, gLastX)
           fromY == Seed(gFirstMouse, yMousePos, gLastY)
           xOffset == XOffset(xMousePos, fromX)
           yOffset == YOffset(yMousePos, fromY)
       IN  /\ gFirstMouse' = FALSE
           /\ gLastX' = xMousePos
           /\ gLastY' = yMousePos
           \* line 161: the call on the camera, with the arguments passed
           /\ last' = [op |-> "cursor", x |-> xMousePos, y |-> yMousePos,
                       first |-> gFirstMouse, camera |-> g_pCamera,
                       xOffset |-> xOffset, yOffset |-> yOffset]
           /\ IF g_pCamera = NULL
                THEN \* null dereference at line 161: the handler does not return
                     /\ crashed' = TRUE
                     /\ mouseMultiplier' = mouseMultiplier
                ELSE /\ crashed' = FALSE
                     /\ mouseMultiplier' = Clamp(mouseMultiplier + yOffset)
    /\ UNCHANGED <<alive, m_pShaderManager, m_pWindow, g_pCamera,
                   gCameraSpeedMultiplier, scrollMultiplier, gDeltaTime,
                   gLastFrame, bOrthographicProjection, glfw, blendEnabled,
                   clock, projection>>

\* ----------------------------------------------- Mouse_Scroll_Callback
Mouse_Scroll_Callback(yOffset) ==
    /\ ~crashed
    /\ glfw.window # NULL
    /\ glfw.scrollCallback
    /\ scrollMultiplier' = Clamp(scrollMultiplier + yOffset * MultiplierStep)
    /\ last' = [op |-> "scroll", yOffset |-> yOffset]
    /\ UNCHANGED <<alive, m_pShaderManager, m_pWindow, g_pCamera, gLastX,
                   gLastY, gFirstMouse, gCameraSpeedMultiplier, mouseMultiplier,
                   gDeltaTime, gLastFrame, bOrthographicProjection, glfw,
                   blendEnabled, clock, projection, crashed>>

\* ----------------------------------------------- ProcessKeyboardEvents
\* line 206
CameraSpeed(deltaTime) == deltaTime * BaseSpeed * gCameraSpeedMultiplier

Sign(pressed, plus, minus) ==
    (IF plus \in pressed THEN 1 ELSE 0) - (IF minus \in pressed THEN 1 ELSE 0)

\* lines 209-230: what is added to the camera position, as multiples of the
\* camera's front, right and up vectors
Movement(pressed, cameraSpeed) ==
    [front |-> cameraSpeed * Sign(pressed, "W", "S"),
     right |-> cameraSpeed * Sign(pressed, "D", "A"),
     up    |-> cameraSpeed * Sign(pressed, "Q", "E")]

\* Variant: the flag follows Escape pressed on its own.
ShouldCloseOnlyEscape(pressed, flag) == pressed = {"ESCAPE"}

\* lines 233-234
ShouldClose(pressed, flag) == flag \/ "ESCAPE" \in pressed

\* ---------------------------------------------------- PrepareSceneView
\* Variant: the operands are swapped.
DeltaTimeReversed(currentFrame, lastFrame) == lastFrame - currentFrame

\* line 253
DeltaTime(currentFrame, lastFrame) == currentFrame - lastFrame

\* Variant: the flag is recomputed every frame instead of kept.
ProjectionFlagNoLatch(pressed, flag) == "O" \in pressed /\ "P" \notin pressed

\* Variant: P is polled before O.
ProjectionFlagOLast(pressed, flag) ==
    LET afterP == IF "P" \in pressed THEN FALSE ELSE flag
    IN  IF "O" \in pressed THEN TRUE ELSE afterP

\* lines 267-270
ProjectionFlag(pressed, flag) ==
    LET afterO == IF "O" \in pressed THEN TRUE ELSE flag
    IN  IF "P" \in pressed THEN FALSE ELSE afterO

\* lines 273-284
ProjectionFormula(flag) == IF flag THEN "ortho" ELSE "perspective"

PrepareSceneView(pressed) ==
    /\ alive
    /\ ~crashed
    /\ m_pWindow # NULL
    /\ glfw.window = m_pWindow
    /\ LET currentFrame == clock
           deltaTime == DeltaTime(currentFrame, gLastFrame)
           cameraSpeed == CameraSpeed(deltaTime)
           flag == ProjectionFlag(pressed, bOrthographicProjection)
       IN  /\ gDeltaTime' = deltaTime
           /\ gLastFrame' = currentFrame
           /\ glfw' = [glfw EXCEPT !.shouldClose = ShouldClose(pressed, @)]
           /\ bOrthographicProjection' = flag
           /\ projection' = IF m_pShaderManager # NULL
                              THEN ProjectionFormula(flag)
                              ELSE projection
           /\ last' = [op |-> "frame", keys |-> pressed,
                       cameraSpeed |-> cameraSpeed,
                       move |-> Movement(pressed, cameraSpeed)]
    /\ UNCHANGED <<alive, m_pShaderManager, m_pWindow, g_pCamera, gLastX,
                   gLastY, gFirstMouse, gCameraSpeedMultiplier, mouseMultiplier,
                   scrollMultiplier, blendEnabled, clock, crashed>>

\* ---------------------------------------------------------------- clock
Tick ==
    /\ ~crashed
    /\ clock < MaxTime
    /\ clock' = clock + 1
    /\ UNCHANGED <<alive, m_pShaderManager, m_pWindow, g_pCamera, gLastX,
                   gLastY, gFirstMouse, gCameraSpeedMultiplier, mouseMultiplier,
                   scrollMultiplier, gDeltaTime, gLastFrame,
                   bOrthographicProjection, glfw, blendEnabled, projection,
                   crashed, last>>

CreateStep == \E created \in BOOLEAN : CreateDisplayWindow(created)
CursorStep == \E x \in CursorXs, y \in CursorYs : Mouse_Position_Callback(x, y)
ScrollStep == \E d \in ScrollDeltas : Mouse_Scroll_Callback(d)
FrameStep == \E pressed \in KeySets : PrepareSceneView(pressed)

Next ==
    \/ CreateStep
    \/ CursorStep
    \/ ScrollStep
    \/ FrameStep
    \/ Tick
    \/ Destructor

Spec == Init /\ [][Next]_vars

\* ================================================================ claims
Abs(n) == IF n < 0 THEN 0 - n ELSE n

\* A step of PrepareSceneView: the only step that leaves a "frame" record in
\* last without advancing the clock; last'.keys is what it polled.
FrameTaken == last'.op = "frame" /\ clock' = clock

\* C1: in a frame where P is pressed the perspective formula is forwarded,
\* where O is pressed and P is not the orthographic one, and where neither
\* is pressed the formula forwarded by the frame before it (perspective in
\* the first frame): the mode latches from the latest frame that polled O or P.
C1_ProjectionLatches ==
    [][FrameTaken =>
         projection' =
            IF "P" \in last'.keys THEN "perspective"
            ELSE IF "O" \in last'.keys THEN "ortho"
            ELSE IF projection = "unset" THEN "perspective"
            ELSE projection]_vars

\* a frame with neither O nor P pressed that forwarded the orthographic formula
C1_Witness ==
    /\ last.op = "frame"
    /\ "O" \notin last.keys
    /\ "P" \notin last.keys
    /\ projection = "ortho"

\* C2: every speed multiplier held (the scroll handler's, the mouse
\* handler's, the one the keyboard poller reads) lies in [0.1, 10.0].
C2_MultipliersInRange ==
    /\ MinMultiplier <= scrollMultiplier /\ scrollMultiplier <= MaxMultiplier
    /\ MinMultiplier <= mouseMultiplier /\ mouseMultiplier <= MaxMultiplier
    /\ MinMultiplier <= gCameraSpeedMultiplier
    /\ gCameraSpeedMultiplier <= MaxMultiplier

\* both clamps have acted: the scroll handler's multiplier was cut at 10.0 by
\* an upward wheel delta, the mouse handler's raised to 0.1
C2_Witness ==
    /\ last.op = "scroll"
    /\ last.yOffset > 0
    /\ scrollMultiplier = MaxMultiplier
    /\ mouseMultiplier = MinMultiplier

\* C3: in a frame where one movement key is pressed the camera is moved by
\* elapsed time x 5.0 x the scroll handler's multiplier (in multiples of the
\* axis vector it moves along), and that is the speed the poller computed.
C3_ScrollAdjustsSpeed ==
    (/\ last.op = "frame"
     /\ \E k \in MovementKeys : last.keys \cap MovementKeys = {k})
    => /\ last.cameraSpeed = gDeltaTime * BaseSpeed * scrollMultiplier
       /\ Abs(last.move.front) + Abs(last.move.right) + Abs(last.move.up)
             = gDeltaTime * BaseSpeed * scrollMultiplier

C5_EscapeCloses ==
    /\ [][(FrameTaken /\ "ESCAPE" \in last'.keys) => glfw'.shouldClose]_vars
    /\ [][glfw.shouldClose => glfw'.shouldClose]_vars

\* a frame that polled Escape together with another key
C5_Witness ==
    /\ last.op = "frame"
    /\ "ESCAPE" \in last.keys
    /\ last.keys # {"ESCAPE"}
    /\ glfw.shouldClose

\* C6: with a clock that starts at or above zero and never decreases, every
\* frame leaves the last-frame timestamp at the clock value it read and delta
\* time at that value minus the timestamp of the frame before (0 before the
\* first frame), and delta time is never negative.
C6_DeltaTime ==
    /\ [][FrameTaken =>
            /\ gLastFrame' = clock
            /\ gDeltaTime' = clock - gLastFrame
            /\ gDeltaTime' >= 0]_vars
    /\ [](gDeltaTime >= 0)

\* a frame that measured a positive delta
C6_Witness ==
    /\ last.op = "frame"
    /\ gDeltaTime > 0
    /\ gLastFrame = clock

\* C7: a failed window creation returns a null handle, terminates the
\* windowing library and changes nothing else (stored handle null, no callback
\* registered, context not current, blending off); a successful one returns
\* the handle, stores the same handle and registers both callbacks.
C7_CreateDisplayWindow ==
    /\ [][CreateDisplayWindow(FALSE) =>
            /\ last'.result = NULL
            /\ glfw'.terminated
            /\ m_pWindow' = NULL
            /\ ~glfw'.cursorPosCallback
            /\ ~glfw'.scrollCallback
            /\ ~glfw'.contextCurrent
            /\ ~blendEnabled'
            /\ UNCHANGED <<alive, m_pShaderManager, m_pWindow, g_pCamera,
                           gLastX, gLastY, gFirstMouse, gCameraSpeedMultiplier,
                           mouseMultiplier, scrollMultiplier, gDeltaTime,
                           gLastFrame, bOrthographicProjection, blendEnabled,
                           projection>>]_vars
    /\ [][CreateDisplayWindow(TRUE) =>
            /\ last'.result # NULL
            /\ m_pWindow' = last'.result
            /\ glfw'.window = last'.result
            /\ glfw'.cursorPosCallback
            /\ glfw'.scrollCallback]_vars

\* a window creation that failed
C7_Witness ==
    /\ last.op = "create"
    /\ ~last.created
    /\ last.result = NULL
    /\ glfw.terminated

\* C8: a frame that polls both O and P as pressed ends with the flag false
\* and forwards the perspective formula (P is polled after O).
C8_BothKeysPerspective ==
    (last.op = "frame" /\ last.keys = {"O", "P"})
    => (~bOrthographicProjection /\ projection = "perspective")

\* a frame that polled O and P together
C8_Witness ==
    /\ last.op = "frame"
    /\ last.keys = {"O", "P"}
    /\ projection = "perspective"

\* C9: every cursor event after the first passes 2.5 x (x - lastX) and
\* 2.5 x (lastY - y) to the camera call, (lastX, lastY) being the stored
\* position; every cursor event stores its own position, and no other step
\* changes the stored position.
C9_MouseOffsets ==
    /\ [][\A x \in CursorXs, y \in CursorYs :
            Mouse_Position_Callback(x, y) =>
               /\ gLastX' = x
               /\ gLastY' = y
               /\ ~gFirstMouse =>
                     /\ last'.xOffset = Sensitivity * (x - gLastX)
                     /\ last'.yOffset = Sensitivity * (gLastY - y)]_vars
    /\ [][~CursorStep => UNCHANGED <<gLastX, gLastY>>]_vars

\* a later cursor event that moved down and to the right
C9_Witness ==
    /\ last.op = "cursor"
    /\ ~last.first
    /\ last.xOffset > 0
    /\ last.yOffset < 0
    /\ gLastX = last.x
    /\ gLastY = last.y

\* C10: whenever the cursor-position callback can be dispatched (it is
\* registered on a live window) the camera pointer is not null.
C10_CameraNeverNull ==
    (glfw.window # NULL /\ glfw.cursorPosCallback) => g_pCamera # NULL

====
